---- MODULE Spec2Model ----
(***************************************************************************)
(* A model of the price-based heating controller: the decision functions   *)
(* of temperature_logic.py, the Home Assistant client of src/ha_client.py  *)
(* (retry_request, control_switch and its confirmation polls) and the      *)
(* control cycle run_control of src/control.py.                            *)
(*                                                                         *)
(* Units.  Prices are whole c/kWh.  Temperatures are thousandths of a      *)
(* degree.  MAX_SHUTOFF_HOURS is counted in eighths of an hour, so that    *)
(* int(MAX_SHUTOFF_HOURS * 4) truncates.  Time is counted in half seconds. *)
(* A Python value that may be None is a sequence: <<>> is None and <<x>>   *)
(* is the value x.                                                         *)
(***************************************************************************)
EXTENDS Integers, Sequences, FiniteSets, TLC

\* ------------------------------------------------------------------ bounds
\* Prices range over 0..MaxPrice.
MaxPrice == 3
\* A daily series handed to the policy has at most MaxLen quarters.
MaxLen == 3
\* MAX_SHUTOFF_HOURS ranges over 0..MaxShutoffEighths eighths of an hour.
MaxShutoffEighths == 9
\* The control cycle is run at most MaxCycles times.
MaxCycles == 2
\* Stand-in for the 96 quarters of a full day in get_daily_prices.
QuartersPerDay == 2
\* PRICE_LOW_THRESHOLD ranges over 1..MaxLowThreshold and PRICE_HIGH_THRESHOLD
\* over 1..2 * MaxLowThreshold when the adjustment is checked on its own.
MaxLowThreshold == 10
\* The adjustment is evaluated at the prices -MaxAdjustPrice..MaxAdjustPrice.
MaxAdjustPrice == 25
\* The decision log's clock counts TicksPerDay ticks a day up to MaxNow, and
\* at most MaxLogCalls decisions are logged.
TicksPerDay == 2
MaxNow == 3
MaxLogCalls == 3

Prices == 0..MaxPrice

\* ------------------------------------------------------------------ Python values
None == <<>>
Some(x) == <<x>>
Val(o) == o[1]
IsNone(o) == o = <<>>

\* ------------------------------------------------------------------ state
VARIABLES
    \* configuration (config.py), loaded once at start-up
    TEMP_VARIATION, PRICE_LOW_THRESHOLD, PRICE_HIGH_THRESHOLD, MAX_SHUTOFF_HOURS,
    PRICE_ALWAYS_ON_THRESHOLD, CENTRAL_HEATING_SHUTOFF_SWITCH,
    SETPOINT_OUTPUT, HEALTHCHECK_URL,
    \* run_control: position and locals
    pc, cycle, base_temperature, current_price, current_temperature,
    setpoint_temp, adjustment, should_heat, daily_prices, decision, events,
    \* the activation of retry_request and of control_switch
    rr, cs,
    \* the hub: the observed state of each switch and the accepted command
    switchState, pending,
    \* a day of policy evaluations, one per quarter
    day,
    \* the activation of _send_with_retry in its background thread
    sender,
    \* the decision log: the lines of data/heating_decisions.jsonl, the
    \* activations of log_heating_decision, the local clock, and every entry
    \* ever appended
    DECISIONS_LOG_FILE, loggers, now, logged

cfgVars == <<TEMP_VARIATION, PRICE_LOW_THRESHOLD, PRICE_HIGH_THRESHOLD, MAX_SHUTOFF_HOURS,
             PRICE_ALWAYS_ON_THRESHOLD, CENTRAL_HEATING_SHUTOFF_SWITCH,
             SETPOINT_OUTPUT, HEALTHCHECK_URL>>
localVars == <<base_temperature, current_temperature, setpoint_temp, adjustment,
               should_heat>>
hubVars == <<switchState, pending>>
logVars == <<DECISIONS_LOG_FILE, loggers, now, logged>>
auxVars == <<sender, logVars>>
vars == <<cfgVars, pc, cycle, localVars, current_price, daily_prices, decision,
          events, rr, cs, hubVars, day, auxVars>>

\* ------------------------------------------------------------------ temperature_logic.py
\* Python's negative indexing: s[i] for -Len(s) <= i < Len(s).
PyIndex(s, i) == IF i >= 0 THEN s[i + 1] ELSE s[Len(s) + i + 1]

RECURSIVE InsertDesc(_, _)
InsertDesc(s, x) ==
    IF s = <<>> THEN <<x>>
    ELSE IF x >= Head(s) THEN <<x>> \o s
    ELSE <<Head(s)>> \o InsertDesc(Tail(s), x)

\* sorted(s, reverse=True)
RECURSIVE SortedDesc(_)
SortedDesc(s) == IF s = <<>> THEN <<>> ELSE InsertDesc(SortedDesc(Tail(s)), Head(s))

\* min(s) of a non-empty list
RECURSIVE Min(_)
Min(s) ==
    IF Len(s) = 1 THEN s[1]
    ELSE LET m == Min(Tail(s)) IN IF Head(s) <= m THEN Head(s) ELSE m

\* (mutant) the rank counted with a strict comparison
CountAbove(s, x) == Cardinality({i \in DOMAIN s : s[i] > x})

\* (mutant) a dense rank: the number of distinct prices at or above x, so
\* that every quarter at the day's maximum has rank 1
CountDistinctAtLeast(s, x) == Cardinality({s[i] : i \in {j \in DOMAIN s : s[j] >= x}})

\* sum(1 for p in s if p >= x)
CountAtLeast(s, x) == Cardinality({i \in DOMAIN s : s[i] >= x})

\* int(MAX_SHUTOFF_HOURS * 4), the hours counted in eighths
max_shutoff_quarters == (MAX_SHUTOFF_HOURS * 4) \div 8

\* (mutant) the threshold read one place too far down the sorted list
shutoff_threshold_off_by_one(prices) ==
    IF max_shutoff_quarters < Len(prices)
    THEN PyIndex(SortedDesc(prices), max_shutoff_quarters)
    ELSE Min(prices)

\* (mutant) the fallback threshold taken from the top of the sorted list
shutoff_threshold_fallback_max(prices) ==
    IF max_shutoff_quarters < Len(prices)
    THEN PyIndex(SortedDesc(prices), max_shutoff_quarters - 1)
    ELSE PyIndex(SortedDesc(prices), 0)

shutoff_threshold(prices) ==
    IF max_shutoff_quarters < Len(prices)
    THEN PyIndex(SortedDesc(prices), max_shutoff_quarters - 1)
    ELSE Min(prices)

\* (mutant) the always-on check left out, so that the ranking decides alone
AlwaysOnNever(price) == FALSE

\* (mutant) a price at the threshold counted as cheap
AlwaysOnAtOrBelow(price) == price <= PRICE_ALWAYS_ON_THRESHOLD

AlwaysOnCheck(price) == price < PRICE_ALWAYS_ON_THRESHOLD

\* (mutant) the rank compared with < instead of <=
InTopNRankBelow(price, prices) ==
    /\ CountAtLeast(prices, price) < max_shutoff_quarters
    /\ price >= shutoff_threshold(prices)

\* (mutant) a price above every price of the day never blocked
InTopNInSeriesOnly(price, prices) ==
    /\ CountAtLeast(prices, price) >= 1
    /\ CountAtLeast(prices, price) <= max_shutoff_quarters
    /\ price >= shutoff_threshold(prices)

InTopN(price, prices) ==
    /\ CountAtLeast(prices, price) <= max_shutoff_quarters
    /\ price >= shutoff_threshold(prices)

\* should_central_heating_run(current_price, daily_prices); daily_prices is
\* None or a list.  The result is (should_run, reason); the numbers that the
\* reason is formatted from are kept in "shown".
should_central_heating_run(price, prices) ==
    IF AlwaysOnCheck(price)
    THEN [should_run |-> TRUE, reason |-> "always on", shown |-> <<>>]
    ELSE IF IsNone(prices) \/ Len(Val(prices)) = 0
    THEN [should_run |-> TRUE, reason |-> "No price data available", shown |-> <<>>]
    ELSE IF InTopN(price, Val(prices))
    THEN [should_run |-> FALSE, reason |-> "In top-N",
          shown |-> <<max_shutoff_quarters, CountAtLeast(Val(prices), price)>>]
    ELSE [should_run |-> TRUE, reason |-> "Not in top-N",
          shown |-> <<max_shutoff_quarters, shutoff_threshold(Val(prices))>>]

\* num / den rounded to the nearest integer, a tie going to the even one
\* (den > 0): the rounding rule of Python's round(), applied here to the
\* exact quotient.
RoundDiv(num, den) ==
    LET q == num \div den
        r == num % den
    IN IF 2 * r < den THEN q
       ELSE IF 2 * r > den THEN q + 1
       ELSE IF q % 2 = 0 THEN q ELSE q + 1

\* round(num / den, 2) of a temperature num / den in thousandths of a
\* degree: the nearest multiple of a hundredth.
round2(num, den) == 10 * RoundDiv(num, 10 * den)

\* calculate_temperature_adjustment(price): the line
\* TEMP_VARIATION - price * (TEMP_VARIATION / PRICE_LOW_THRESHOLD), clamped
\* to +-TEMP_VARIATION, and the clamped value rounded to 2 decimals.  The
\* line is the fraction num / den; PRICE_HIGH_THRESHOLD is not read.
calculate_temperature_adjustment(price) ==
    LET num == TEMP_VARIATION * PRICE_LOW_THRESHOLD - price * TEMP_VARIATION
        den == PRICE_LOW_THRESHOLD
        clamped == IF num > TEMP_VARIATION * den THEN TEMP_VARIATION * den
                   ELSE IF num < (-TEMP_VARIATION) * den THEN (-TEMP_VARIATION) * den
                   ELSE num
    IN round2(clamped, den)

\* get_setpoint_temperature: (round(base_temp + adjustment, 2), adjustment)
get_setpoint_temperature(price, base_temp) ==
    LET adj == calculate_temperature_adjustment(price)
    IN [setpoint |-> round2(base_temp + adj, 1), adjustment |-> adj]

\* ------------------------------------------------------------------ the policy on its own
Series == UNION {[1..n -> Prices] : n \in 0..MaxLen}

NoRetry == [active |-> FALSE]
NoSwitch == [active |-> FALSE]
NoDay == [quarter |-> 0, blocked |-> 0]
NoSender == [active |-> FALSE]

\* An empty decision log that nothing writes.
LogIdle ==
    /\ DECISIONS_LOG_FILE = <<>>
    /\ loggers = <<>>
    /\ now = 0
    /\ logged = <<>>

\* No sender thread and an idle decision log.
AuxIdle ==
    /\ sender = NoSender
    /\ LogIdle

InitPolicy ==
    /\ TEMP_VARIATION = 500
    /\ PRICE_LOW_THRESHOLD = 10
    /\ PRICE_HIGH_THRESHOLD = 20
    /\ MAX_SHUTOFF_HOURS \in 0..MaxShutoffEighths
    /\ PRICE_ALWAYS_ON_THRESHOLD \in Prices
    /\ CENTRAL_HEATING_SHUTOFF_SWITCH = TRUE
    /\ SETPOINT_OUTPUT = TRUE
    /\ HEALTHCHECK_URL = TRUE
    /\ pc = "policy"
    /\ cycle = 0
    /\ base_temperature = None
    /\ current_price = None
    /\ current_temperature = None
    /\ setpoint_temp = None
    /\ adjustment = None
    /\ should_heat = None
    /\ daily_prices \in {None} \cup {Some(s) : s \in Series}
    /\ decision = None
    /\ events = <<>>
    /\ rr = NoRetry
    /\ cs = NoSwitch
    /\ switchState = [e \in {"room", "central"} |-> "off"]
    /\ pending = [e \in {"room", "central"} |-> <<>>]
    /\ day = NoDay
    /\ AuxIdle

\* One call of should_central_heating_run with any current price.
PolicyEvaluate(p) ==
    /\ pc = "policy"
    /\ day.quarter = 0
    /\ current_price' = Some(p)
    /\ decision' = Some(should_central_heating_run(p, daily_prices))
    /\ UNCHANGED <<auxVars, cfgVars, pc, cycle, localVars, daily_prices, events, rr, cs,
                   hubVars, day>>

\* The call made in quarter i of the day: the current price is the
\* series' own price of that quarter.
PolicyQuarter ==
    /\ pc = "policy"
    /\ IsNone(decision) \/ day.quarter > 0
    /\ ~IsNone(daily_prices)
    /\ day.quarter < Len(Val(daily_prices))
    /\ LET i == day.quarter + 1
           p == Val(daily_prices)[i]
           d == should_central_heating_run(p, daily_prices)
       IN /\ current_price' = Some(p)
          /\ decision' = Some(d)
          /\ day' = [quarter |-> i,
                     blocked |-> day.blocked + (IF d.should_run THEN 0 ELSE 1)]
    /\ UNCHANGED <<auxVars, cfgVars, pc, cycle, localVars, daily_prices, events, rr, cs,
                   hubVars>>

NextPolicy ==
    \/ \E p \in Prices : PolicyEvaluate(p)
    \/ PolicyQuarter

SpecPolicy == InitPolicy /\ [][NextPolicy]_vars

\* ------------------------------------------------------------------ ha_client.py: retry_request
\* retry_request(func, max_retries=3, initial_delay=1.0)
max_retries == 3
\* initial_delay = 1.0 s, in half seconds
initial_delay == 2

\* The activation of retry_request started by the caller at "func".
RetryEntered(func) ==
    [active |-> TRUE, func |-> func, at |-> "call", attempt |-> 0, calls |-> 0,
     nones |-> 0, sleeps |-> <<>>, result |-> None]

\* (mutant) a result tested for truth, so that a reading of 0 is retried
RetryAfterCallTruthy(r, result) ==
    IF ~IsNone(result) /\ Val(result) # 0
    THEN [r EXCEPT !.calls = @ + 1, !.at = "returned", !.result = result]
    ELSE IF r.attempt < max_retries - 1
    THEN [r EXCEPT !.calls = @ + 1, !.nones = @ + 1, !.at = "sleep"]
    ELSE [r EXCEPT !.calls = @ + 1, !.nones = @ + 1, !.at = "returned",
                   !.result = None]

\* result = func(); if result is not None: return result.  After the last
\* attempt the loop ends without a sleep and None is returned.
\* "calls" counts the calls of func and "nones" those that returned None.
RetryAfterCall(r, result) ==
    IF ~IsNone(result)
    THEN [r EXCEPT !.calls = @ + 1, !.at = "returned", !.result = result]
    ELSE IF r.attempt < max_retries - 1
    THEN [r EXCEPT !.calls = @ + 1, !.nones = @ + 1, !.at = "sleep"]
    ELSE [r EXCEPT !.calls = @ + 1, !.nones = @ + 1, !.at = "returned",
                   !.result = None]

\* (mutant) the delay not doubled from one attempt to the next
RetryDelayConstant(attempt) == initial_delay

\* delay = initial_delay * (2 ** attempt)
RetryDelay(attempt) == initial_delay * (2 ^ attempt)

\* What the two _fetch functions can return: a reading, or None for an
\* error status, a missing field, a parse error or a network error.
Temperatures == {0, 21500}
FetchResults(func) ==
    IF func = "price" THEN {None} \cup {Some(p) : p \in Prices}
    ELSE {None} \cup {Some(t) : t \in Temperatures}

\* One call of func() inside the loop.
RetryCall(result) ==
    /\ rr.active
    /\ rr.at = "call"
    /\ result \in FetchResults(rr.func)
    /\ rr' = RetryAfterCall(rr, result)
    /\ UNCHANGED <<auxVars, cfgVars, pc, cycle, localVars, current_price, daily_prices,
                   decision, events, cs, hubVars, day>>

\* time.sleep(delay) between two attempts.
RetrySleep ==
    /\ rr.active
    /\ rr.at = "sleep"
    /\ rr' = [rr EXCEPT !.sleeps = Append(@, RetryDelay(rr.attempt)),
                        !.attempt = @ + 1, !.at = "call"]
    /\ UNCHANGED <<auxVars, cfgVars, pc, cycle, localVars, current_price, daily_prices,
                   decision, events, cs, hubVars, day>>

\* ------------------------------------------------------------------ ha_client.py: switches
Entities == {"room", "central"}

\* for attempt in range(10)
PollAttempts == 10
\* time.sleep(0.5 if attempt == 0 else 1), in half seconds
PollWait(attempt) == IF attempt = 0 THEN 1 ELSE 2

\* The answers of the hub to GET /api/states/<entity>.
PollResponses == {"200", "200 other", "404", "500", "timeout"}

\* get_switch_state(entity_id): the state of a 200 answer, None otherwise.
get_switch_state(entity, response) ==
    IF response = "200" THEN Some(switchState[entity])
    ELSE IF response = "200 other" THEN Some("unavailable")
    ELSE None

ServiceName(turn_on) == IF turn_on THEN "turn_on" ELSE "turn_off"
ExpectedState(turn_on) == IF turn_on THEN "on" ELSE "off"

\* The activation of control_switch(entity_id, turn_on).
\* "posts" and "polls" count the requests sent, "mismatches" the polls that
\* read a valid state other than the expected one; "post" and "last" are the
\* answer to the POST and the answer and state of the latest poll.
SwitchEntered(entity, turn_on) ==
    [active |-> TRUE, entity |-> entity, turn_on |-> turn_on, at |-> "post",
     attempt |-> 0, posts |-> 0, polls |-> 0, mismatches |-> 0, sleeps |-> <<>>,
     post |-> "none", last |-> [response |-> "none", state |-> None],
     result |-> None, outcome |-> "none"]

\* The answers of the hub to POST /api/services/switch/<service>.
PostResponses == {"2xx", "error status", "raise"}

\* (mutant) the confirmation loop entered whatever the answer to the POST
SwitchAfterPostAlwaysPolls(c, response) ==
    [c EXCEPT !.posts = @ + 1, !.post = response, !.at = "poll"]

\* What control_switch does with the answer to its POST.
SwitchAfterPost(c, response) ==
    IF response = "2xx"
    THEN [c EXCEPT !.posts = @ + 1, !.post = response, !.at = "poll"]
    ELSE [c EXCEPT !.posts = @ + 1, !.post = response, !.at = "returned",
                   !.result = Some(FALSE), !.outcome = "ActuatorError"]

\* One turn of the loop up to the comparison: the sleep and the read.
SwitchPolled(c, response, state) ==
    [c EXCEPT !.polls = @ + 1,
              !.sleeps = Append(@, PollWait(c.attempt)),
              !.last = [response |-> response, state |-> state],
              !.mismatches = IF ~IsNone(state) /\ state # Some(ExpectedState(c.turn_on))
                             THEN @ + 1 ELSE @]

\* (mutant) a poll that reads no state is retried like a wrong state
SwitchAfterPollNoneRetried(c, response, state) ==
    LET polled == SwitchPolled(c, response, state)
    IN IF state = Some(ExpectedState(c.turn_on))
       THEN [polled EXCEPT !.at = "returned", !.result = Some(TRUE),
                           !.outcome = "Confirmed"]
       ELSE IF c.attempt + 1 < PollAttempts
       THEN [polled EXCEPT !.attempt = @ + 1]
       ELSE [polled EXCEPT !.attempt = @ + 1, !.at = "returned",
                           !.result = Some(TRUE), !.outcome = "Unconfirmed"]

\* (mutant) an unconfirmed command reported as a failure
SwitchAfterPollUnconfirmedFails(c, response, state) ==
    LET polled == SwitchPolled(c, response, state)
    IN IF state = Some(ExpectedState(c.turn_on))
       THEN [polled EXCEPT !.at = "returned", !.result = Some(TRUE),
                           !.outcome = "Confirmed"]
       ELSE IF IsNone(state)
       THEN [polled EXCEPT !.at = "returned", !.result = Some(FALSE),
                           !.outcome = "NotFound"]
       ELSE IF c.attempt + 1 < PollAttempts
       THEN [polled EXCEPT !.attempt = @ + 1]
       ELSE [polled EXCEPT !.attempt = @ + 1, !.at = "returned",
                           !.result = Some(FALSE), !.outcome = "Unconfirmed"]

\* (mutant) the command sent once more when the polls did not confirm it
SwitchAfterPollResends(c, response, state) ==
    LET polled == SwitchPolled(c, response, state)
    IN IF state = Some(ExpectedState(c.turn_on))
       THEN [polled EXCEPT !.at = "returned", !.result = Some(TRUE),
                           !.outcome = "Confirmed"]
       ELSE IF IsNone(state)
       THEN [polled EXCEPT !.at = "returned", !.result = Some(FALSE),
                           !.outcome = "NotFound"]
       ELSE IF c.attempt + 1 < PollAttempts
       THEN [polled EXCEPT !.attempt = @ + 1]
       ELSE IF c.posts < 2
       THEN [polled EXCEPT !.attempt = 0, !.at = "post"]
       ELSE [polled EXCEPT !.attempt = @ + 1, !.at = "returned",
                           !.result = Some(TRUE), !.outcome = "Unconfirmed"]

\* What control_switch does with the state read by one poll: return True
\* on the expected state, False on None, else go round again; after the
\* last turn the loop ends and True is returned.
SwitchAfterPoll(c, response, state) ==
    LET polled == SwitchPolled(c, response, state)
    IN IF state = Some(ExpectedState(c.turn_on))
       THEN [polled EXCEPT !.at = "returned", !.result = Some(TRUE),
                           !.outcome = "Confirmed"]
       ELSE IF IsNone(state)
       THEN [polled EXCEPT !.at = "returned", !.result = Some(FALSE),
                           !.outcome = "NotFound"]
       ELSE IF c.attempt + 1 < PollAttempts
       THEN [polled EXCEPT !.attempt = @ + 1]
       ELSE [polled EXCEPT !.attempt = @ + 1, !.at = "returned",
                           !.result = Some(TRUE), !.outcome = "Unconfirmed"]

CommandEvent(entity, turn_on) ==
    [kind |-> "command", entity |-> entity, service |-> ServiceName(turn_on)]

\* requests.post(.../api/services/switch/<service_name>)
SwitchPost(response) ==
    /\ cs.active
    /\ cs.at = "post"
    /\ response \in PostResponses
    /\ events' = Append(events, CommandEvent(cs.entity, cs.turn_on))
    /\ pending' = IF response = "2xx"
                  THEN [pending EXCEPT ![cs.entity] = Some(ExpectedState(cs.turn_on))]
                  ELSE pending
    /\ cs' = SwitchAfterPost(cs, response)
    /\ UNCHANGED <<auxVars, cfgVars, pc, cycle, localVars, current_price, daily_prices,
                   decision, rr, switchState, day>>

\* One turn of the confirmation loop: sleep, read the state, compare.
SwitchPoll(response) ==
    /\ cs.active
    /\ cs.at = "poll"
    /\ response \in PollResponses
    /\ cs' = SwitchAfterPoll(cs, response, get_switch_state(cs.entity, response))
    /\ UNCHANGED <<auxVars, cfgVars, pc, cycle, localVars, current_price, daily_prices,
                   decision, events, rr, hubVars, day>>

\* The hub carries out a command it accepted (eventually, or never).
HubApply(entity) ==
    /\ ~IsNone(pending[entity])
    /\ switchState' = [switchState EXCEPT ![entity] = Val(pending[entity])]
    /\ pending' = [pending EXCEPT ![entity] = None]
    /\ UNCHANGED <<auxVars, cfgVars, pc, cycle, localVars, current_price, daily_prices,
                   decision, events, rr, cs, day>>

\* control_heating(should_heat)
control_heating(heat) == SwitchEntered("room", heat)

\* (mutant) the relay driven like the room heater, without the inversion
control_central_heating_not_inverted(run) ==
    IF ~CENTRAL_HEATING_SHUTOFF_SWITCH
    THEN [SwitchEntered("central", run) EXCEPT !.at = "returned"]
    ELSE SwitchEntered("central", run)

\* control_central_heating(should_run): returns at once when no switch is
\* configured; else control_switch with the flag inverted.
control_central_heating(run) ==
    IF ~CENTRAL_HEATING_SHUTOFF_SWITCH
    THEN [SwitchEntered("central", ~run) EXCEPT !.at = "returned"]
    ELSE SwitchEntered("central", ~run)

\* get_central_heating_state(): {state, is_running} of the state read, or None
get_central_heating_state(response) ==
    IF ~CENTRAL_HEATING_SHUTOFF_SWITCH THEN None
    ELSE LET state == get_switch_state("central", response)
         IN IF ~IsNone(state)
            THEN Some([state |-> Val(state), is_running |-> Val(state) = "off"])
            ELSE None

\* ------------------------------------------------------------------ control.py: run_control
\* get_base_temperature(): the input_number of the hub or the fallback 21.0
BaseTemperatures == {21000}

\* What GET TodayAndDayForward can give: None for an error status or an
\* exception, else the prices of the points dated today: none, part of a
\* day, a full day or more, each quarter cheap or expensive.
DailyPriceLevels == {0, MaxPrice}
DailyResponses == {None} \cup
    {Some(s) : s \in UNION {[1..n -> DailyPriceLevels] : n \in 0..(QuartersPerDay + 1)}}

\* get_daily_prices(): the list when it has a full day; a shorter list is
\* returned too, with a warning, unless it is empty.
get_daily_prices(response) ==
    IF IsNone(response) THEN None
    ELSE IF Len(Val(response)) >= QuartersPerDay THEN response
    ELSE IF Val(response) # <<>> THEN response
    ELSE None

\* Python's truth value of a list or None
Truthy(list) == ~IsNone(list) /\ Val(list) # <<>>

Init ==
    /\ TEMP_VARIATION = 500
    /\ PRICE_LOW_THRESHOLD = 10
    /\ PRICE_HIGH_THRESHOLD = 20
    /\ MAX_SHUTOFF_HOURS = 5
    /\ PRICE_ALWAYS_ON_THRESHOLD = 1
    /\ CENTRAL_HEATING_SHUTOFF_SWITCH \in BOOLEAN
    /\ SETPOINT_OUTPUT \in BOOLEAN
    /\ HEALTHCHECK_URL \in BOOLEAN
    /\ pc = "idle"
    /\ cycle = 0
    /\ base_temperature = None
    /\ current_price = None
    /\ current_temperature = None
    /\ setpoint_temp = None
    /\ adjustment = None
    /\ should_heat = None
    /\ daily_prices = None
    /\ decision = None
    /\ events = <<>>
    /\ rr = NoRetry
    /\ cs = NoSwitch
    /\ switchState = [e \in Entities |-> "off"]
    /\ pending = [e \in Entities |-> None]
    /\ day = NoDay
    /\ AuxIdle

\* The scheduler (or POST /api/trigger) calls run_control().
StartCycle ==
    /\ pc = "idle"
    /\ cycle < MaxCycles
    /\ cycle' = cycle + 1
    /\ pc' = "base"
    /\ base_temperature' = None
    /\ current_price' = None
    /\ current_temperature' = None
    /\ setpoint_temp' = None
    /\ adjustment' = None
    /\ should_heat' = None
    /\ daily_prices' = None
    /\ decision' = None
    /\ events' = <<>>
    /\ UNCHANGED <<auxVars, cfgVars, rr, cs, hubVars, day>>

\* base_temperature = get_base_temperature(); then get_current_price() is entered.
GetBaseTemperature(t) ==
    /\ pc = "base"
    /\ base_temperature' = Some(t)
    /\ pc' = "price"
    /\ rr' = RetryEntered("price")
    /\ UNCHANGED <<auxVars, cfgVars, cycle, current_price, current_temperature, setpoint_temp,
                   adjustment, should_heat, daily_prices, decision, events, cs,
                   hubVars, day>>

\* current_price = get_current_price(); then get_current_temperature() is entered.
GetCurrentPriceReturn ==
    /\ pc = "price"
    /\ rr.active
    /\ rr.at = "returned"
    /\ current_price' = rr.result
    /\ pc' = "temp"
    /\ rr' = RetryEntered("temp")
    /\ UNCHANGED <<auxVars, cfgVars, cycle, localVars, daily_prices, decision, events, cs,
                   hubVars, day>>

\* current_temperature = get_current_temperature()
GetCurrentTemperatureReturn ==
    /\ pc = "temp"
    /\ rr.active
    /\ rr.at = "returned"
    /\ current_temperature' = rr.result
    /\ pc' = "check"
    /\ rr' = NoRetry
    /\ UNCHANGED <<auxVars, cfgVars, cycle, base_temperature, setpoint_temp, adjustment,
                   should_heat, current_price, daily_prices, decision, events, cs,
                   hubVars, day>>

\* (mutant) a heater that also heats when the temperature is at the setpoint
ComputeSetpointHeatsAtSetpoint ==
    /\ pc = "check"
    /\ ~IsNone(current_price)
    /\ ~IsNone(current_temperature)
    /\ LET sp == get_setpoint_temperature(Val(current_price), Val(base_temperature))
       IN /\ setpoint_temp' = Some(sp.setpoint)
          /\ adjustment' = Some(sp.adjustment)
          /\ should_heat' = Some(Val(current_temperature) <= sp.setpoint)
    /\ pc' = "publish"
    /\ UNCHANGED <<auxVars, cfgVars, cycle, base_temperature, current_temperature,
                   current_price, daily_prices, decision, events, rr, cs, hubVars, day>>

\* The test of line 55 and, when both inputs are there, the setpoint and
\* should_heat = current_temperature < setpoint_temp.
ComputeSetpoint ==
    /\ pc = "check"
    /\ ~IsNone(current_price)
    /\ ~IsNone(current_temperature)
    /\ LET sp == get_setpoint_temperature(Val(current_price), Val(base_temperature))
       IN /\ setpoint_temp' = Some(sp.setpoint)
          /\ adjustment' = Some(sp.adjustment)
          /\ should_heat' = Some(Val(current_temperature) < sp.setpoint)
    /\ pc' = "publish"
    /\ UNCHANGED <<auxVars, cfgVars, cycle, base_temperature, current_temperature,
                   current_price, daily_prices, decision, events, rr, cs, hubVars, day>>

\* What the GET of the health-check URL can give.
HealthResponses == {"200", "other status", "raise"}

\* ping_healthcheck(success): nothing is sent without HEALTHCHECK_URL; a
\* status other than 200 and an exception are logged, and the call returns.
HealthEvent(success, response) ==
    [kind |-> "health", success |-> success, sent |-> HEALTHCHECK_URL,
     ok |-> HEALTHCHECK_URL /\ response = "200"]

\* (mutant) the abort branch switching the room heater off before it reports
AbortCycleHeaterOff(response) ==
    /\ pc = "check"
    /\ response \in HealthResponses
    /\ IsNone(current_price) \/ IsNone(current_temperature)
    /\ events' = events \o <<CommandEvent("room", FALSE), HealthEvent(FALSE, response)>>
    /\ pc' = "idle"
    /\ UNCHANGED <<auxVars, cfgVars, cycle, localVars, current_price, daily_prices, decision,
                   rr, cs, hubVars, day>>

\* The else branch of line 135: ping_healthcheck(success=False).
AbortCycle(response) ==
    /\ pc = "check"
    /\ response \in HealthResponses
    /\ IsNone(current_price) \/ IsNone(current_temperature)
    /\ events' = Append(events, HealthEvent(FALSE, response))
    /\ pc' = "idle"
    /\ UNCHANGED <<auxVars, cfgVars, cycle, localVars, current_price, daily_prices, decision,
                   rr, cs, hubVars, day>>

\* update_setpoint_in_ha(setpoint_value): False without SETPOINT_OUTPUT, else
\* True for a 2xx answer to the POST and False for any other status or an
\* exception.
update_setpoint_in_ha(response) ==
    IF ~SETPOINT_OUTPUT THEN FALSE ELSE response = "2xx"

\* update_setpoint_in_ha(setpoint_temp), whose result run_control drops; then
\* control_heating(should_heat) is entered.
UpdateSetpointInHa(response) ==
    /\ pc = "publish"
    /\ response \in PostResponses
    /\ events' = IF SETPOINT_OUTPUT
                 THEN Append(events, [kind |-> "publish", value |-> Val(setpoint_temp),
                                      ok |-> update_setpoint_in_ha(response)])
                 ELSE events
    /\ pc' = "room"
    /\ cs' = control_heating(Val(should_heat))
    /\ UNCHANGED <<auxVars, cfgVars, cycle, localVars, current_price, daily_prices, decision,
                   rr, hubVars, day>>

\* The return of an apply, True or False, which run_control drops.
AppliedEvent(c) ==
    [kind |-> "applied", entity |-> c.entity, ok |-> Val(c.result)]

\* (mutant) a cycle that goes straight to its health report when the room
\* heater could not be switched
ControlHeatingReturnStopsOnFailure ==
    /\ pc = "room"
    /\ cs.active
    /\ cs.at = "returned"
    /\ cs' = NoSwitch
    /\ events' = Append(events, AppliedEvent(cs))
    /\ pc' = IF CENTRAL_HEATING_SHUTOFF_SWITCH /\ Val(cs.result) THEN "daily" ELSE "health"
    /\ UNCHANGED <<auxVars, cfgVars, cycle, localVars, current_price, daily_prices, decision,
                   rr, hubVars, day>>

\* control_heating returns; line 92 tests CENTRAL_HEATING_SHUTOFF_SWITCH.
ControlHeatingReturn ==
    /\ pc = "room"
    /\ cs.active
    /\ cs.at = "returned"
    /\ cs' = NoSwitch
    /\ events' = Append(events, AppliedEvent(cs))
    /\ pc' = IF CENTRAL_HEATING_SHUTOFF_SWITCH THEN "daily" ELSE "health"
    /\ UNCHANGED <<auxVars, cfgVars, cycle, localVars, current_price, daily_prices, decision,
                   rr, hubVars, day>>

\* daily_prices = get_daily_prices() and the test of line 102.
GetDailyPrices(response) ==
    /\ pc = "daily"
    /\ response \in DailyResponses
    /\ daily_prices' = get_daily_prices(response)
    /\ events' = Append(events, [kind |-> "daily", available |-> Truthy(daily_prices')])
    /\ pc' = IF Truthy(daily_prices') THEN "decide" ELSE "health"
    /\ UNCHANGED <<auxVars, cfgVars, cycle, localVars, current_price, decision, rr, cs,
                   hubVars, day>>

\* should_run, reason = should_central_heating_run(current_price, daily_prices).
\* The list is not read again after this line, and the model forgets it.
DecideCentralHeating ==
    /\ pc = "decide"
    /\ decision' = Some(should_central_heating_run(Val(current_price), daily_prices))
    /\ daily_prices' = None
    /\ events' = Append(events, [kind |-> "decide",
                                 should_run |-> Val(decision').should_run])
    /\ pc' = "log"
    /\ UNCHANGED <<auxVars, cfgVars, cycle, localVars, current_price, rr, cs, hubVars, day>>

\* What log_decision_to_file can do: write the entry, or raise.
LogResponses == {"written", "raise"}

\* (mutant) a cycle that commands the relay without logging the decision first
LogHeatingDecisionNotLogged(response) ==
    /\ pc = "log"
    /\ response \in LogResponses
    /\ events' = events
    /\ pc' = "central"
    /\ cs' = control_central_heating(Val(decision).should_run)
    /\ UNCHANGED <<auxVars, cfgVars, cycle, localVars, current_price, daily_prices, decision,
                   rr, hubVars, day>>

\* log_heating_decision(should_run, reason, current_price); a failing file
\* write is caught.  Then control_central_heating(should_run) is entered.
LogHeatingDecision(response) ==
    /\ pc = "log"
    /\ response \in LogResponses
    /\ events' = IF CENTRAL_HEATING_SHUTOFF_SWITCH
                 THEN Append(events, [kind |-> "log",
                                      should_run |-> Val(decision).should_run,
                                      ok |-> response = "written"])
                 ELSE events
    /\ pc' = "central"
    /\ cs' = control_central_heating(Val(decision).should_run)
    /\ UNCHANGED <<auxVars, cfgVars, cycle, localVars, current_price, daily_prices, decision,
                   rr, hubVars, day>>

\* control_central_heating returns.
ControlCentralHeatingReturn ==
    /\ pc = "central"
    /\ cs.active
    /\ cs.at = "returned"
    /\ cs' = NoSwitch
    /\ events' = Append(events, AppliedEvent(cs))
    /\ pc' = "health"
    /\ UNCHANGED <<auxVars, cfgVars, cycle, localVars, current_price, daily_prices, decision,
                   rr, hubVars, day>>

\* (mutant) a cycle that reports failure when an apply returned False
PingHealthcheckReportsApply(response) ==
    /\ pc = "health"
    /\ response \in HealthResponses
    /\ events' = Append(events,
                        HealthEvent(\A i \in DOMAIN events :
                                        events[i].kind = "applied" => events[i].ok,
                                    response))
    /\ pc' = "idle"
    /\ UNCHANGED <<auxVars, cfgVars, cycle, localVars, current_price, daily_prices, decision,
                   rr, cs, hubVars, day>>

\* ping_healthcheck(success=True), the last statement of the cycle.
PingHealthcheck(response) ==
    /\ pc = "health"
    /\ response \in HealthResponses
    /\ events' = Append(events, HealthEvent(TRUE, response))
    /\ pc' = "idle"
    /\ UNCHANGED <<auxVars, cfgVars, cycle, localVars, current_price, daily_prices, decision,
                   rr, cs, hubVars, day>>

Next ==
    \/ StartCycle
    \/ \E t \in BaseTemperatures : GetBaseTemperature(t)
    \/ \E result \in FetchResults("price") \cup FetchResults("temp") : RetryCall(result)
    \/ RetrySleep
    \/ GetCurrentPriceReturn
    \/ GetCurrentTemperatureReturn
    \/ ComputeSetpoint
    \/ \E response \in HealthResponses : AbortCycle(response)
    \/ \E response \in PostResponses : UpdateSetpointInHa(response)
    \/ \E response \in PostResponses : SwitchPost(response)
    \/ \E response \in PollResponses : SwitchPoll(response)
    \/ \E entity \in Entities : HubApply(entity)
    \/ ControlHeatingReturn
    \/ \E response \in DailyResponses : GetDailyPrices(response)
    \/ DecideCentralHeating
    \/ \E response \in LogResponses : LogHeatingDecision(response)
    \/ ControlCentralHeatingReturn
    \/ \E response \in HealthResponses : PingHealthcheck(response)

Spec == Init /\ [][Next]_vars

\* ------------------------------------------------------------------ the adjustment on its own
\* TEMP_VARIATION values: a quarter and a half of a degree, and values with
\* a third decimal.
Variations == {125, 126, 250, 375, 500}

AdjustPrices == (-MaxAdjustPrice)..MaxAdjustPrice

InitAdjustment ==
    /\ TEMP_VARIATION \in Variations
    /\ PRICE_LOW_THRESHOLD \in 1..MaxLowThreshold
    /\ PRICE_HIGH_THRESHOLD \in 1..(2 * MaxLowThreshold)
    /\ MAX_SHUTOFF_HOURS = 0
    /\ PRICE_ALWAYS_ON_THRESHOLD = 0
    /\ CENTRAL_HEATING_SHUTOFF_SWITCH = TRUE
    /\ SETPOINT_OUTPUT = TRUE
    /\ HEALTHCHECK_URL = TRUE
    /\ pc = "adjust"
    /\ cycle = 0
    /\ base_temperature = None
    /\ current_price = None
    /\ current_temperature = None
    /\ setpoint_temp = None
    /\ adjustment = None
    /\ should_heat = None
    /\ daily_prices = None
    /\ decision = None
    /\ events = <<>>
    /\ rr = NoRetry
    /\ cs = NoSwitch
    /\ switchState = [e \in Entities |-> "off"]
    /\ pending = [e \in Entities |-> None]
    /\ day = NoDay
    /\ AuxIdle

\* One call setpoint_temp, adjustment = get_setpoint_temperature(price, base_temp)
\* with any price.
AdjustEvaluate(price, base_temp) ==
    /\ pc = "adjust"
    /\ LET sp == get_setpoint_temperature(price, base_temp)
       IN /\ setpoint_temp' = Some(sp.setpoint)
          /\ adjustment' = Some(sp.adjustment)
    /\ current_price' = Some(price)
    /\ base_temperature' = Some(base_temp)
    /\ UNCHANGED <<auxVars, cfgVars, pc, cycle, current_temperature, should_heat, daily_prices,
                   decision, events, rr, cs, hubVars, day>>

NextAdjustment ==
    \E price \in AdjustPrices, base_temp \in BaseTemperatures : AdjustEvaluate(price, base_temp)

SpecAdjustment == InitAdjustment /\ [][NextAdjustment]_vars

\* ------------------------------------------------------------------ background_tasks.py: the thermostat sender
\* Times of the sender are whole seconds since its start_time.
\* initial_delay and max_delay of _send_with_retry, its max_retry_time, and
\* the timeout of one request of _send_to_thermostat.
send_initial_delay == 5
max_delay == 120
max_retry_time == 840
send_timeout == 5

\* The control cycle's period: the scheduler fires at :00, :15, :30 and :45.
CyclePeriod == 15 * 60

\* What one _send_to_thermostat call gives: status 200, another status, or
\* one of the three exception clauses.
SendOutcomes == {"200", "non-200", "Timeout", "ConnectionError", "Exception"}

\* (mutant) a delay doubled without the cap
next_delay_uncapped(delay) == delay * 2

\* delay = min(delay * 2, max_delay)
next_delay(delay) == IF delay * 2 < max_delay THEN delay * 2 ELSE max_delay

\* (mutant) a budget that counts the time already spent only
retry_time_exceeded_ignores_delay(elapsed, delay) == elapsed > max_retry_time

\* if elapsed + delay > max_retry_time
retry_time_exceeded(elapsed, delay) == elapsed + delay > max_retry_time

\* The thread as send_temperature_to_bathroom_thermostat starts it: the
\* locals of _send_with_retry before the first pass of its loop.  clock is
\* time.time() - start_time; began is the clock at which the latest attempt
\* began and sleeps the delays slept so far.
SenderStarted ==
    [active |-> TRUE, at |-> "send", delay |-> send_initial_delay, attempt |-> 1,
     clock |-> 0, began |-> 0, sleeps |-> <<>>, sent |-> FALSE, gave_up |-> FALSE]

InitSender ==
    /\ TEMP_VARIATION = 500
    /\ PRICE_LOW_THRESHOLD = 10
    /\ PRICE_HIGH_THRESHOLD = 20
    /\ MAX_SHUTOFF_HOURS = 0
    /\ PRICE_ALWAYS_ON_THRESHOLD = 0
    /\ CENTRAL_HEATING_SHUTOFF_SWITCH = TRUE
    /\ SETPOINT_OUTPUT = TRUE
    /\ HEALTHCHECK_URL = TRUE
    /\ pc = "sender"
    /\ cycle = 0
    /\ base_temperature = None
    /\ current_price = None
    /\ current_temperature = None
    /\ setpoint_temp = None
    /\ adjustment = None
    /\ should_heat = None
    /\ daily_prices = None
    /\ decision = None
    /\ events = <<>>
    /\ rr = NoRetry
    /\ cs = NoSwitch
    /\ switchState = [e \in Entities |-> "off"]
    /\ pending = [e \in Entities |-> None]
    /\ day = NoDay
    /\ sender = SenderStarted
    /\ LogIdle

senderFrame ==
    <<cfgVars, pc, cycle, localVars, current_price, daily_prices, decision, events,
      rr, cs, hubVars, day, logVars>>

\* One pass of the try block: _send_to_thermostat(url) takes up to its
\* timeout; on status 200 the function returns, on anything else it goes on
\* to the check of the retry time.
SendToThermostat(outcome, took) ==
    /\ sender.active
    /\ sender.at = "send"
    /\ outcome \in SendOutcomes
    /\ took \in 0..send_timeout
    /\ sender' = [sender EXCEPT !.began = sender.clock,
                                !.clock = @ + took,
                                !.sent = (outcome = "200"),
                                !.at = IF outcome = "200" THEN "returned" ELSE "check"]
    /\ UNCHANGED senderFrame

\* elapsed = time.time() - start_time; give up when the next sleep would end
\* after max_retry_time.
CheckRetryTime ==
    /\ sender.active
    /\ sender.at = "check"
    /\ sender' = IF retry_time_exceeded(sender.clock, sender.delay)
                 THEN [sender EXCEPT !.at = "returned", !.gave_up = TRUE]
                 ELSE [sender EXCEPT !.at = "sleep"]
    /\ UNCHANGED senderFrame

\* time.sleep(delay); delay = min(delay * 2, max_delay); attempt += 1
SleepDelay ==
    /\ sender.active
    /\ sender.at = "sleep"
    /\ sender' = [sender EXCEPT !.clock = @ + sender.delay,
                                !.sleeps = Append(@, sender.delay),
                                !.delay = next_delay(sender.delay),
                                !.attempt = @ + 1,
                                !.at = "send"]
    /\ UNCHANGED senderFrame

NextSender ==
    \/ \E outcome \in SendOutcomes, took \in 0..send_timeout :
          SendToThermostat(outcome, took)
    \/ CheckRetryTime
    \/ SleepDelay

SpecSender == InitSender /\ [][NextSender]_vars

\* ------------------------------------------------------------------ heating_logger.py: the decision log
\* A timestamp is the local clock's tick.  The ISO strings of one time zone
\* compare as their local date and time do, so the comparison of two
\* timestamps is the comparison of their ticks.
\* now.replace(hour=0, minute=0, second=0, microsecond=0)
Midnight(t) == t - (t % TicksPerDay)

DayOf(t) == t \div TicksPerDay

\* The entry log_heating_decision builds; `call` names the call that built
\* it (not a field of the file's entry).
LogEntry(should_run, t, call) ==
    [timestamp |-> t, decision |-> IF should_run THEN "HEAT" ELSE "BLOCK",
     call |-> call]

\* The entries rotate_old_logs keeps when it reads the file:
\* entry.get('timestamp', '') >= cutoff_timestamp, the cutoff being the
\* midnight that began the current day.
RecentEntries(file, t) == SelectSeq(file, LAMBDA e : e.timestamp >= Midnight(t))

IdleLogger == [at |-> "idle", calls |-> 0, entry |-> None, entries |-> <<>>]

CallsMade == LET Sum[n \in 0..Len(loggers)] ==
                     IF n = 0 THEN 0 ELSE Sum[n - 1] + loggers[n].calls
             IN Sum[Len(loggers)]

InitLog(threads) ==
    /\ TEMP_VARIATION = 500
    /\ PRICE_LOW_THRESHOLD = 10
    /\ PRICE_HIGH_THRESHOLD = 20
    /\ MAX_SHUTOFF_HOURS = 0
    /\ PRICE_ALWAYS_ON_THRESHOLD = 0
    /\ CENTRAL_HEATING_SHUTOFF_SWITCH = TRUE
    /\ SETPOINT_OUTPUT = TRUE
    /\ HEALTHCHECK_URL = TRUE
    /\ pc = "logger"
    /\ cycle = 0
    /\ base_temperature = None
    /\ current_price = None
    /\ current_temperature = None
    /\ setpoint_temp = None
    /\ adjustment = None
    /\ should_heat = None
    /\ daily_prices = None
    /\ decision = None
    /\ events = <<>>
    /\ rr = NoRetry
    /\ cs = NoSwitch
    /\ switchState = [e \in Entities |-> "off"]
    /\ pending = [e \in Entities |-> None]
    /\ day = NoDay
    /\ sender = NoSender
    /\ DECISIONS_LOG_FILE = <<>>
    /\ loggers = [t \in 1..threads |-> IdleLogger]
    /\ now = 0
    /\ logged = <<>>

logFrame ==
    <<cfgVars, pc, cycle, localVars, current_price, daily_prices, decision, events,
      rr, cs, hubVars, day, sender>>

\* log_heating_decision up to its try block: the entry with the timestamp of
\* the call.
LogDecisionToFile(t, should_run) ==
    /\ t \in DOMAIN loggers
    /\ loggers[t].at = "idle"
    /\ CallsMade < MaxLogCalls
    /\ loggers' = [loggers EXCEPT ![t] =
                      [@ EXCEPT !.at = "append", !.calls = @ + 1,
                                !.entry = Some(LogEntry(should_run, now,
                                                        <<t, loggers[t].calls + 1>>))]]
    /\ UNCHANGED <<logFrame, DECISIONS_LOG_FILE, now, logged>>

\* with open(DECISIONS_LOG_FILE, 'a') as f: f.write(json.dumps(entry) + '\n')
AppendEntry(t) ==
    /\ t \in DOMAIN loggers
    /\ loggers[t].at = "append"
    /\ DECISIONS_LOG_FILE' = Append(DECISIONS_LOG_FILE, Val(loggers[t].entry))
    /\ logged' = Append(logged, Val(loggers[t].entry))
    /\ loggers' = [loggers EXCEPT ![t] = [@ EXCEPT !.at = "rotate"]]
    /\ UNCHANGED <<logFrame, now>>

\* rotate_old_logs, its first half: the cutoff from the clock and the read of
\* the whole file into `entries`.
RotateRead(t) ==
    /\ t \in DOMAIN loggers
    /\ loggers[t].at = "rotate"
    /\ loggers' = [loggers EXCEPT ![t] =
                      [@ EXCEPT !.at = "write",
                                !.entries = RecentEntries(DECISIONS_LOG_FILE, now)]]
    /\ UNCHANGED <<logFrame, DECISIONS_LOG_FILE, now, logged>>

\* rotate_old_logs, its second half: the file opened with 'w' and `entries`
\* written back (taken as one step).
RotateWrite(t) ==
    /\ t \in DOMAIN loggers
    /\ loggers[t].at = "write"
    /\ DECISIONS_LOG_FILE' = loggers[t].entries
    /\ loggers' = [loggers EXCEPT ![t] =
                      [@ EXCEPT !.at = "idle", !.entry = None, !.entries = <<>>]]
    /\ UNCHANGED <<logFrame, now, logged>>

\* The local clock advances.
ClockTick ==
    /\ now < MaxNow
    /\ now' = now + 1
    /\ UNCHANGED <<logFrame, DECISIONS_LOG_FILE, loggers, logged>>

NextLog ==
    \/ \E t \in DOMAIN loggers, should_run \in BOOLEAN : LogDecisionToFile(t, should_run)
    \/ \E t \in DOMAIN loggers : AppendEntry(t)
    \/ \E t \in DOMAIN loggers : RotateRead(t)
    \/ \E t \in DOMAIN loggers : RotateWrite(t)
    \/ ClockTick

\* One caller at a time: the scheduler's cycles, one after the other.
SpecDecisionLog == InitLog(1) /\ [][NextLog]_vars

\* Two cycles at once: two requests of POST /api/trigger served by two
\* threads, or a trigger during a scheduled cycle.
SpecOverlap == InitLog(2) /\ [][NextLog]_vars

\* ------------------------------------------------------------------ claims on the policy
Range(s) == {s[i] : i \in DOMAIN s}

PolicyCalled == pc = "policy" /\ ~IsNone(decision)

\* C3: over one day, with the policy evaluated once per quarter at the
\* quarter's own price, the number of quarters that were blocked is at most
\* int(MAX_SHUTOFF_HOURS * 4), ties included.
C3_BlockedAtMostN ==
    (pc = "policy" /\ day.quarter > 0) => day.blocked <= max_shutoff_quarters

\* C3 witness: a whole day was evaluated, the full budget of at least two
\* quarters was blocked, and two blocked quarters tie on the price.
C3_Witness ==
    /\ pc = "policy"
    /\ ~IsNone(daily_prices)
    /\ day.quarter = Len(Val(daily_prices))
    /\ day.quarter >= 3
    /\ day.blocked = max_shutoff_quarters
    /\ day.blocked >= 2
    /\ \E i, j \in DOMAIN Val(daily_prices) :
          /\ i # j
          /\ Val(daily_prices)[i] = Val(daily_prices)[j]
          /\ Val(daily_prices)[i] >= PRICE_ALWAYS_ON_THRESHOLD
          /\ \E k \in DOMAIN Val(daily_prices) : Val(daily_prices)[k] < Val(daily_prices)[i]

\* C4: a current price strictly below PRICE_ALWAYS_ON_THRESHOLD always gives
\* should_run = True, whatever the series and MAX_SHUTOFF_HOURS.
C4_AlwaysOnOverridesRanking ==
    (PolicyCalled /\ Val(current_price) < PRICE_ALWAYS_ON_THRESHOLD)
        => Val(decision).should_run

\* C4 witness: the price is below the always-on threshold although the
\* ranking alone would have put the quarter among the blocked ones.
C4_Witness ==
    /\ PolicyCalled
    /\ Val(current_price) < PRICE_ALWAYS_ON_THRESHOLD
    /\ ~IsNone(daily_prices)
    /\ Len(Val(daily_prices)) > 0
    /\ InTopN(Val(current_price), Val(daily_prices))
    /\ Val(decision).should_run

\* The claim's own reading of N = int(MAX_SHUTOFF_HOURS * 4): the largest n
\* with n quarters no longer than MAX_SHUTOFF_HOURS (two eighths a quarter).
ClaimN == CHOOSE n \in 0..MAX_SHUTOFF_HOURS : 2 * n <= MAX_SHUTOFF_HOURS /\ 2 * (n + 1) > MAX_SHUTOFF_HOURS

\* The n-th highest price of s, for 1 <= n <= Len(s): the price v with fewer
\* than n prices above it and at least n prices at or above it.
NthHighest(s, n) ==
    {v \in Range(s) : /\ Cardinality({i \in DOMAIN s : s[i] > v}) < n
                      /\ Cardinality({i \in DOMAIN s : s[i] >= v}) >= n}

\* The thresholds the claim allows: the N-th highest price for N below the
\* length, the minimum otherwise; a 0-th highest price is any price of s.
ClaimThresholds(s, n) ==
    IF n >= Len(s) THEN {v \in Range(s) : \A w \in Range(s) : v <= w}
    ELSE IF n = 0 THEN Range(s)
    ELSE NthHighest(s, n)

ClaimBlocks(p, s, n) ==
    /\ p >= PRICE_ALWAYS_ON_THRESHOLD
    /\ ~IsNone(s)
    /\ Len(Val(s)) > 0
    /\ \A t \in ClaimThresholds(Val(s), n) :
          /\ Cardinality({i \in DOMAIN Val(s) : Val(s)[i] >= p}) <= n
          /\ p >= t

\* C5: should_run = False if and only if the price is at or above the
\* always-on threshold, the series is non-empty, rank <= N and the price is
\* at or above the shutoff threshold; in every other case it is True.
C5_BlockIff ==
    PolicyCalled =>
        /\ (~IsNone(daily_prices) /\ Len(Val(daily_prices)) > 0)
              => ClaimThresholds(Val(daily_prices), ClaimN) # {}
        /\ Val(decision).should_run
              = ~ClaimBlocks(Val(current_price), daily_prices, ClaimN)

\* C5 witness: the rank is within N but the price is below the shutoff
\* threshold, so the second condition alone lets central heating run.
C5_Witness ==
    /\ PolicyCalled
    /\ ~IsNone(daily_prices)
    /\ Len(Val(daily_prices)) > max_shutoff_quarters
    /\ Val(current_price) >= PRICE_ALWAYS_ON_THRESHOLD
    /\ CountAtLeast(Val(daily_prices), Val(current_price)) <= max_shutoff_quarters
    /\ Val(current_price) < shutoff_threshold(Val(daily_prices))
    /\ Val(decision).should_run

\* C5 witness of the other side is a blocked quarter.
C5_BlockedReached ==
    /\ PolicyCalled
    /\ ~Val(decision).should_run


\* ------------------------------------------------------------------ claims about the top quarters of a day
\* The quarters of s with fewer than n quarters strictly above them.
TopQuarters(s, n) ==
    {i \in DOMAIN s : Cardinality({j \in DOMAIN s : s[j] > s[i]}) < n}

\* Exactly n quarters of s, 0 < n < Len(s), are strictly more expensive than
\* every other quarter, and their prices are at or above the always-on
\* threshold.
TopSeparated(s, n) ==
    /\ 0 < n
    /\ n < Len(s)
    /\ Cardinality(TopQuarters(s, n)) = n
    /\ \A i \in TopQuarters(s, n) : s[i] >= PRICE_ALWAYS_ON_THRESHOLD

QuarterEvaluated == pc = "policy" /\ day.quarter > 0

\* C14: if exactly N = int(MAX_SHUTOFF_HOURS * 4) quarters (0 < N < length)
\* are strictly more expensive than every other quarter and are priced at or
\* above PRICE_ALWAYS_ON_THRESHOLD, the policy evaluated at each quarter's own
\* price blocks each of those N quarters and allows every other quarter.
C14_TopNBlockedOthersRun ==
    (QuarterEvaluated /\ TopSeparated(Val(daily_prices), ClaimN)) =>
        /\ Val(decision).should_run =
              (day.quarter \notin TopQuarters(Val(daily_prices), ClaimN))
        /\ day.blocked =
              Cardinality({i \in TopQuarters(Val(daily_prices), ClaimN) : i <= day.quarter})

\* C14 witness: a day of three quarters was evaluated to its end with N = 2:
\* the two dearest quarters were blocked and the third, itself at or above
\* the always-on threshold, was allowed.
C14_Witness ==
    /\ QuarterEvaluated
    /\ TopSeparated(Val(daily_prices), ClaimN)
    /\ ClaimN = 2
    /\ day.quarter = Len(Val(daily_prices))
    /\ day.blocked = 2
    /\ \A i \in DOMAIN Val(daily_prices) : Val(daily_prices)[i] >= PRICE_ALWAYS_ON_THRESHOLD

DayMin(s) == CHOOSE v \in Range(s) : \A w \in Range(s) : v <= w
DayMax(s) == CHOOSE v \in Range(s) : \A w \in Range(s) : v >= w

\* The policy was called at a price at or above the always-on threshold, with
\* a non-empty series.
RankingDecided ==
    /\ PolicyCalled
    /\ ~IsNone(daily_prices)
    /\ Val(daily_prices) # <<>>
    /\ Val(current_price) >= PRICE_ALWAYS_ON_THRESHOLD

BudgetCoversDay == ClaimN >= Len(Val(daily_prices))

\* C19 as stated: when max_shutoff_quarters is at least the length of the
\* series, a quarter priced at or above the always-on threshold is blocked
\* exactly when its price is above the day's minimum, so a quarter at the
\* minimum price is allowed to run.
C19_BlockedAboveMinimum ==
    (RankingDecided /\ BudgetCoversDay /\ Val(current_price) \in Range(Val(daily_prices))) =>
        (~Val(decision).should_run <=> Val(current_price) > DayMin(Val(daily_prices)))

\* C19 amended: when max_shutoff_quarters is at least the length of the
\* series the threshold is the day's minimum and a price at or above the
\* always-on threshold is blocked exactly when it is at or above the day's
\* minimum: every quarter of the day is blocked, the cheapest included, and
\* the reason of a price that runs shows the minimum as the threshold.
C19_BlockedAtOrAboveMinimum ==
    (RankingDecided /\ BudgetCoversDay) =>
        /\ ~Val(decision).should_run <=> Val(current_price) >= DayMin(Val(daily_prices))
        /\ Val(decision).should_run =>
              Val(decision).shown = <<ClaimN, DayMin(Val(daily_prices))>>

\* C19 witness: with the budget covering a day of differing prices, the
\* quarter at the day's minimum was blocked.
C19_Witness ==
    /\ RankingDecided
    /\ BudgetCoversDay
    /\ Val(current_price) = DayMin(Val(daily_prices))
    /\ DayMax(Val(daily_prices)) > DayMin(Val(daily_prices))
    /\ ~Val(decision).should_run

\* C19, the other case: a price below the day's minimum ran, with the minimum
\* shown as the threshold.
C19_BelowMinimumReached ==
    /\ RankingDecided
    /\ BudgetCoversDay
    /\ Val(current_price) < DayMin(Val(daily_prices))
    /\ Val(decision).should_run

\* The number k of quarters that share the current price.
TiedQuarters == Cardinality({i \in DOMAIN Val(daily_prices) :
                                Val(daily_prices)[i] = Val(current_price)})

AtDayMaximum == Val(current_price) = DayMax(Val(daily_prices))

\* C20 as stated: each of the k quarters sharing the day's maximum price has
\* rank 1, so with max_shutoff_quarters >= 1 and a price at or above the
\* always-on threshold each of them is blocked, whatever k is.
C20_TiedMaximaBlocked ==
    (RankingDecided /\ AtDayMaximum /\ ClaimN >= 1) =>
        /\ ~Val(decision).should_run
        /\ Val(decision).shown = <<ClaimN, 1>>

\* C20 amended: each of the k quarters sharing the day's maximum price has
\* rank k, the number of quarters priced at or above it, so with a price at
\* or above the always-on threshold they are blocked exactly when
\* k <= max_shutoff_quarters, and the reason of a blocked one shows rank k.
C20_TiedMaximaBlockedWithinBudget ==
    (RankingDecided /\ AtDayMaximum) =>
        /\ ~Val(decision).should_run <=> TiedQuarters <= ClaimN
        /\ ~Val(decision).should_run => Val(decision).shown = <<ClaimN, TiedQuarters>>

\* C20 witness: two quarters shared the day's maximum with
\* max_shutoff_quarters = 1, and the policy let the quarter run.
C20_Witness ==
    /\ RankingDecided
    /\ AtDayMaximum
    /\ TiedQuarters = 2
    /\ ClaimN = 1
    /\ Val(decision).should_run

\* C20, the other case: two tied maxima within a budget of two were blocked
\* and shown with rank 2.
C20_TiedBlockedReached ==
    /\ RankingDecided
    /\ AtDayMaximum
    /\ TiedQuarters = 2
    /\ ClaimN = 2
    /\ Val(decision) = [should_run |-> FALSE, reason |-> "In top-N", shown |-> <<2, 2>>]

\* ------------------------------------------------------------------ claims on the cycle and the client
EventsOf(kind) == {i \in DOMAIN events : events[i].kind = kind}

CommandsTo(entity) ==
    {i \in DOMAIN events : events[i].kind = "command" /\ events[i].entity = entity}

CycleEnded == pc = "idle" /\ cycle > 0

InputMissing == IsNone(current_price) \/ IsNone(current_temperature)

\* C1: in a cycle where the temperature or the current price is unavailable
\* after its retries, no command is sent to either switch, no setpoint is
\* published, no decision is logged, and the cycle ends with exactly one
\* health report, which carries failure.
C1_AbortTouchesNothing ==
    (cycle > 0 /\ pc \in {"check", "idle"} /\ InputMissing) =>
        /\ EventsOf("command") = {}
        /\ EventsOf("publish") = {}
        /\ EventsOf("log") = {}
        /\ pc = "check" => events = <<>>
        /\ pc = "idle" =>
              /\ Cardinality(EventsOf("health")) = 1
              /\ events[Len(events)].kind = "health"
              /\ ~events[Len(events)].success

\* C1 witness: a second cycle ended after three failed temperature reads
\* with the price in hand, while the relay is ON.
C1_Witness ==
    /\ CycleEnded
    /\ cycle = 2
    /\ ~IsNone(current_price)
    /\ IsNone(current_temperature)
    /\ switchState["central"] = "on"
    /\ Len(events) = 1

DailyUnavailableInCycle ==
    \E i \in EventsOf("daily") : ~events[i].available

\* C2: in a cycle with temperature and price available, a central-heating
\* switch configured and the daily series unavailable, the cycle commands
\* the shutoff switch OFF (heating allowed).
C2_FailOpenApplied ==
    (CycleEnded /\ ~InputMissing /\ CENTRAL_HEATING_SHUTOFF_SWITCH
        /\ DailyUnavailableInCycle)
    => \E i \in CommandsTo("central") : events[i].service = "turn_off"

\* C2, the harm: a relay that an earlier cycle switched ON does not stay ON
\* over a cycle that had its inputs but no daily series.
C2_NeverStaysBlocked ==
    (CycleEnded /\ cycle > 1 /\ ~InputMissing /\ CENTRAL_HEATING_SHUTOFF_SWITCH
        /\ DailyUnavailableInCycle)
    => ~(switchState["central"] = "on" /\ IsNone(pending["central"]))

RECURSIVE SumSeq(_)
SumSeq(s) == IF s = <<>> THEN 0 ELSE Head(s) + SumSeq(Tail(s))

SwitchReturned == cs.active /\ cs.at = "returned"

\* C6: when the command is accepted and every poll reads a valid state other
\* than the expected one, control_switch issues exactly 10 polls, waits 0.5 s
\* before the first and 1 s before each later one (9.5 s in all), and
\* returns success (Unconfirmed).
C6_UnconfirmedAfterTenPolls ==
    /\ cs.active => cs.polls <= 10
    /\ (SwitchReturned /\ cs.post = "2xx" /\ cs.mismatches = cs.polls) =>
          /\ cs.polls = 10
          /\ cs.sleeps = [i \in 1..10 |-> IF i = 1 THEN 1 ELSE 2]
          /\ SumSeq(cs.sleeps) = 19
          /\ cs.result = Some(TRUE)
          /\ cs.outcome = "Unconfirmed"
          /\ cs.posts = 1

\* C6 witness: the relay's command was accepted, ten polls read a valid
\* state that is not the expected one, and the call has returned.
C6_Witness ==
    /\ SwitchReturned
    /\ cs.entity = "central"
    /\ cs.post = "2xx"
    /\ cs.mismatches = 10
    /\ cs.polls = 10
    /\ cs.last.state = Some("unavailable")

\* C7: a poll that reports "not found" makes control_switch return failure
\* at once, with no later poll, even when the switch has reached the
\* expected state by then; and a poll that reads the expected state ends the
\* polling with Confirmed.
C7_NotFoundStopsPolling ==
    /\ [](/\ (cs.active /\ cs.polls >= 1 /\ cs.last.response = "404") =>
                /\ cs.at = "returned"
                /\ cs.result = Some(FALSE)
                /\ cs.outcome = "NotFound"
          /\ (cs.active /\ cs.polls >= 1
                /\ cs.last.state = Some(ExpectedState(cs.turn_on))) =>
                /\ cs.at = "returned"
                /\ cs.result = Some(TRUE)
                /\ cs.outcome = "Confirmed")
    /\ [][(cs.active /\ cs.at = "returned" /\ cs'.active /\ cs'.entity = cs.entity)
            => cs'.polls <= cs.polls]_vars

\* C7 witness: the third poll reported "not found" and control_switch
\* returned, although the hub has switched to the expected state.
C7_Witness ==
    /\ SwitchReturned
    /\ cs.polls = 3
    /\ cs.last.response = "404"
    /\ cs.outcome = "NotFound"
    /\ switchState[cs.entity] = ExpectedState(cs.turn_on)

\* C8: when the POST is answered with a non-2xx status, or raises,
\* control_switch returns failure without any confirmation poll and without
\* sending the command again.
C8_RejectedCommandNotRetried ==
    (cs.active /\ cs.posts >= 1 /\ cs.post # "2xx") =>
        /\ cs.at = "returned"
        /\ cs.result = Some(FALSE)
        /\ cs.polls = 0
        /\ cs.posts = 1
        /\ Cardinality(CommandsTo(cs.entity)) = 1

\* C8 witness: the relay's command was answered with an error status.
C8_Witness ==
    /\ SwitchReturned
    /\ cs.entity = "central"
    /\ cs.post = "error status"
    /\ cs.outcome = "ActuatorError"

\* C9: the room heater is commanded turn_on exactly when should_heat; the
\* relay is commanded turn_off exactly when should_run and turn_on exactly
\* when not, and confirmed against that same state, so that after a
\* Confirmed relay apply get_central_heating_state gives
\* is_running = should_run.
C9_Polarity ==
    /\ \A i \in CommandsTo("room") :
          (events[i].service = "turn_on") = Val(should_heat)
    /\ \A i \in CommandsTo("central") :
          /\ (events[i].service = "turn_off") = Val(decision).should_run
          /\ (events[i].service = "turn_on") = ~Val(decision).should_run
    /\ (SwitchReturned /\ cs.entity = "central" /\ cs.outcome = "Confirmed") =>
          /\ cs.last.state
                = Some(IF Val(decision).should_run THEN "off" ELSE "on")
          /\ ~IsNone(get_central_heating_state("200"))
          /\ Val(get_central_heating_state("200")).is_running
                = Val(decision).should_run

\* C9 witness: a blocking decision was applied to the relay and confirmed.
C9_Witness ==
    /\ SwitchReturned
    /\ cs.entity = "central"
    /\ cs.outcome = "Confirmed"
    /\ ~Val(decision).should_run
    /\ \E i \in CommandsTo("room") : events[i].service = "turn_on"

RetryReturned == rr.active /\ rr.at = "returned"

\* C10: retry_request with max_retries = 3 and initial_delay = 1 s: after k < 3
\* results None and then a value, f was called k + 1 times, the sleeps were
\* 1 s then 2 s (k of them) and the value is returned; after 3 results None,
\* f was called 3 times, there was no sleep after the last call, and None is
\* returned.
C10_RetryBackoff ==
    /\ rr.active => rr.calls <= 3
    /\ RetryReturned =>
          IF rr.nones < 3
          THEN /\ ~IsNone(rr.result)
               /\ rr.calls = rr.nones + 1
               /\ rr.sleeps = SubSeq(<<2, 4>>, 1, rr.nones)
          ELSE /\ IsNone(rr.result)
               /\ rr.nones = 3
               /\ rr.calls = 3
               /\ rr.sleeps = <<2, 4>>

\* C10 witness: two results None, then a value.
C10_Witness ==
    /\ RetryReturned
    /\ rr.nones = 2
    /\ rr.calls = 3
    /\ ~IsNone(rr.result)

\* C10 witness of the other case: three results None.
C10_GaveUp ==
    /\ RetryReturned
    /\ rr.nones = 3
    /\ IsNone(rr.result)

\* ------------------------------------------------------------------ claims about the policy at its edges
AtAlwaysOnThreshold == PolicyCalled /\ Val(current_price) = PRICE_ALWAYS_ON_THRESHOLD

\* C23 as stated: a current price exactly equal to PRICE_ALWAYS_ON_THRESHOLD
\* is treated as cheap: should_run is True for it with every daily series.
C23_ThresholdPriceIsCheap ==
    AtAlwaysOnThreshold => Val(decision).should_run

\* C23 amended: a current price exactly equal to PRICE_ALWAYS_ON_THRESHOLD is
\* not covered by the always-on rule, which needs a price strictly below the
\* threshold; the ranking decides, and the price is blocked exactly when the
\* series is non-empty, at most N prices are at or above it and it is at or
\* above the shutoff threshold.
C23_ThresholdPriceIsRanked ==
    AtAlwaysOnThreshold =>
        /\ Val(decision).reason # "always on"
        /\ Val(decision).should_run
              = ~ClaimBlocks(Val(current_price), daily_prices, ClaimN)

\* C23 witness: a price equal to the always-on threshold was blocked.
C23_Witness ==
    /\ AtAlwaysOnThreshold
    /\ Val(decision).reason = "In top-N"
    /\ ~Val(decision).should_run

\* C23, the other case: a price equal to the threshold ran because the
\* ranking let it, with the threshold shown in the reason.
C23_ThresholdPriceRanReached ==
    /\ AtAlwaysOnThreshold
    /\ Val(decision).reason = "Not in top-N"

\* The prices at which monotonicity is probed: those of the model and one
\* above them all.
ProbePrices == 0..(MaxPrice + 1)

\* C27: for a fixed series and configuration, if the policy blocks at price
\* p it blocks at every price p' >= p, in the series or not; so no quarter
\* runs while a strictly cheaper quarter of the day is blocked.
C27_MonotoneInPrice ==
    (PolicyCalled /\ ~Val(decision).should_run) =>
        \A q \in ProbePrices :
            q >= Val(current_price) =>
                ~should_central_heating_run(q, daily_prices).should_run

\* C27 witness: the policy blocked at a price below the day's maximum, and
\* blocks as well at a price above every price of the day.
C27_Witness ==
    /\ PolicyCalled
    /\ ~Val(decision).should_run
    /\ Val(current_price) < DayMax(Val(daily_prices))
    /\ ~should_central_heating_run(MaxPrice + 1, daily_prices).should_run

\* C28: with max_shutoff_quarters = 0 central heating is never blocked,
\* whatever the current price and the series are.
C28_ZeroBudgetNeverBlocks ==
    (PolicyCalled /\ ClaimN = 0) => Val(decision).should_run

\* ------------------------------------------------------------------ claims about the room heater and the order of a cycle
RoomService == {events[i].service : i \in CommandsTo("room")}

\* C11: in a cycle where temperature and price are available exactly one
\* room-heater command is sent; it is turn_on if and only if the current
\* temperature is below round(base_temp + adjustment(price), 2), so a
\* temperature equal to the setpoint gives turn_off.
C11_RoomHeaterCommand ==
    /\ Cardinality(CommandsTo("room")) <= 1
    /\ (CycleEnded /\ ~InputMissing) =>
          LET setpoint == get_setpoint_temperature(Val(current_price),
                                                   Val(base_temperature)).setpoint
          IN /\ Cardinality(CommandsTo("room")) = 1
             /\ setpoint_temp = Some(setpoint)
             /\ RoomService =
                   {IF Val(current_temperature) < setpoint THEN "turn_on" ELSE "turn_off"}

\* C11 witness: a cycle ended whose temperature equalled the setpoint and
\* whose one room-heater command was turn_off.
C11_Witness ==
    /\ CycleEnded
    /\ ~InputMissing
    /\ current_temperature = setpoint_temp
    /\ RoomService = {"turn_off"}

\* C11, the other case: a cycle ended with the temperature below the setpoint
\* and the heater switched on.
C11_HeatingReached ==
    /\ CycleEnded
    /\ ~InputMissing
    /\ Val(current_temperature) < Val(setpoint_temp)
    /\ RoomService = {"turn_on"}

\* The place of a recorded step in the order of run_control.
StepRank(e) ==
    CASE e.kind = "publish" -> 1
      [] e.kind = "command" /\ e.entity = "room" -> 2
      [] e.kind = "applied" /\ e.entity = "room" -> 3
      [] e.kind = "daily" -> 4
      [] e.kind = "decide" -> 5
      [] e.kind = "log" -> 6
      [] e.kind = "command" /\ e.entity = "central" -> 7
      [] e.kind = "applied" /\ e.entity = "central" -> 8
      [] e.kind = "health" -> 9

InputsAvailableInCycle ==
    cycle > 0 /\ ~InputMissing /\ pc \notin {"base", "price", "temp", "check"}

\* C12: in a cycle with both inputs available and a central-heating switch
\* configured the steps happen in the order publish setpoint, apply room
\* heater, fetch daily prices, decide, log, apply central heating, report
\* health, each at most once; the decision is logged before the relay is
\* commanded; the health report is the last step and occurs exactly once.
C12_StepOrder ==
    (InputsAvailableInCycle /\ CENTRAL_HEATING_SHUTOFF_SWITCH) =>
        /\ \A i, j \in DOMAIN events :
              i < j => StepRank(events[i]) < StepRank(events[j])
        /\ \A i \in CommandsTo("central") : \E j \in EventsOf("log") : j < i
        /\ EventsOf("health") # {} => pc = "idle"
        /\ pc = "idle" =>
              /\ Cardinality(EventsOf("health")) = 1
              /\ events[Len(events)].kind = "health"
              /\ events[Len(events)].success

\* C12 witness: a cycle ended in which all seven steps were taken.
C12_Witness ==
    /\ CycleEnded
    /\ InputsAvailableInCycle
    /\ CENTRAL_HEATING_SHUTOFF_SWITCH
    /\ {StepRank(events[i]) : i \in DOMAIN events} = 1..9

FailedEvents(kind) == {i \in EventsOf(kind) : ~events[i].ok}

RoomApplyFailed == \E i \in FailedEvents("applied") : events[i].entity = "room"

Once(S) == Cardinality(S) = 1

\* The steps of the central-heating part that a cycle takes: the fetch, and
\* with a series in hand the decision, its log line and the command.
CentralPartRan ==
    CENTRAL_HEATING_SHUTOFF_SWITCH =>
        /\ Once(EventsOf("daily"))
        /\ ~DailyUnavailableInCycle =>
              /\ Once(EventsOf("decide"))
              /\ Once(EventsOf("log"))
              /\ Once(CommandsTo("central"))

\* C13: a failed room-heater apply or a failed setpoint publish, decision log
\* or health ping does not stop the cycle: after a failed room-heater apply
\* the central-heating decision and apply still run, after a failed publish
\* or log every later step runs, and the cycle ends with its health report.
C13_FailureDoesNotStopCycle ==
    (CycleEnded /\ ~InputMissing) =>
        /\ RoomApplyFailed => CentralPartRan
        /\ FailedEvents("publish") # {} => Once(CommandsTo("room")) /\ CentralPartRan
        /\ FailedEvents("log") # {} => Once(CommandsTo("central"))
        /\ (RoomApplyFailed \/ FailedEvents("publish") # {} \/ FailedEvents("log") # {}) =>
              /\ Once(EventsOf("health"))
              /\ events[Len(events)].kind = "health"
              /\ events[Len(events)].success

\* C13 witness: a cycle ended in which the publish, the room-heater apply and
\* the log write all failed and the relay was still commanded.
C13_Witness ==
    /\ CycleEnded
    /\ ~InputMissing
    /\ RoomApplyFailed
    /\ FailedEvents("publish") # {}
    /\ FailedEvents("log") # {}
    /\ FailedEvents("health") # {}
    /\ Once(CommandsTo("central"))

\* C13, the two failures of an apply: the room heater's POST was rejected,
\* and the room heater's entity was not found, each in a cycle that went on
\* to fetch the daily prices.
C13_RoomActuatorErrorReached ==
    /\ pc = "room" /\ SwitchReturned /\ cs.outcome = "ActuatorError"

C13_RoomNotFoundReached ==
    /\ pc = "room" /\ SwitchReturned /\ cs.outcome = "NotFound"

\* ------------------------------------------------------------------ claims about the adjustment
AdjustCalled == pc = "adjust" /\ ~IsNone(adjustment)

\* C15: for every price, negative and large ones included, the adjustment
\* lies in [-TEMP_VARIATION, +TEMP_VARIATION], so the setpoint differs from
\* the base temperature by at most TEMP_VARIATION.
C15_AdjustmentWithinBounds ==
    AdjustCalled =>
        /\ -TEMP_VARIATION <= Val(adjustment)
        /\ Val(adjustment) <= TEMP_VARIATION
        /\ Val(setpoint_temp) - Val(base_temperature) <= TEMP_VARIATION
        /\ Val(base_temperature) - Val(setpoint_temp) <= TEMP_VARIATION

\* C16: adjustment(0) = +TEMP_VARIATION, adjustment(PRICE_LOW_THRESHOLD) = 0,
\* adjustment(2 * PRICE_LOW_THRESHOLD) = -TEMP_VARIATION; the adjustment at
\* PRICE_LOW_THRESHOLD - d is minus the adjustment at PRICE_LOW_THRESHOLD + d;
\* and the adjustment does not increase when the price increases.
C16_AnchoredSymmetricMonotone ==
    AdjustCalled =>
        LET price == Val(current_price)
        IN /\ price = 0 => Val(adjustment) = TEMP_VARIATION
           /\ price = PRICE_LOW_THRESHOLD => Val(adjustment) = 0
           /\ price = 2 * PRICE_LOW_THRESHOLD => Val(adjustment) = -TEMP_VARIATION
           /\ Val(adjustment) =
                 -calculate_temperature_adjustment(2 * PRICE_LOW_THRESHOLD - price)
           /\ calculate_temperature_adjustment(price + 1) <= Val(adjustment)

\* C17: for every configuration the adjustment at PRICE_HIGH_THRESHOLD is
\* -TEMP_VARIATION.
C17_HighThresholdIsMaxReduction ==
    (AdjustCalled /\ Val(current_price) = PRICE_HIGH_THRESHOLD) =>
        Val(adjustment) = -TEMP_VARIATION

\* ------------------------------------------------------------------ claims about the daily series
\* C18: get_daily_prices yields a series of exactly a full day of quarters or
\* nothing, so the series handed to should_central_heating_run has exactly a
\* full day of entries (QuartersPerDay stands for 96); a day with fewer or
\* more prices is never ranked.
C18_FullDayOrUnavailable ==
    /\ ~IsNone(daily_prices) /\ pc # "policy" => Len(Val(daily_prices)) = QuartersPerDay
    /\ pc = "decide" => Len(Val(daily_prices)) = QuartersPerDay

\* ------------------------------------------------------------------ claims about writes, polls, the health report and zero readings
AppliedTo(entity) ==
    {i \in DOMAIN events : events[i].kind = "applied" /\ events[i].entity = entity}

\* C21: one control_switch call sends its command exactly once whatever the
\* polls return; a cycle applies each switch at most once and never sends a
\* failed or unconfirmed command again; the daily prices are fetched once,
\* without a retry, in a cycle that reaches the fetch.
C21_WritesAtMostOnce ==
    /\ cs.active => cs.posts <= 1
    /\ SwitchReturned => cs.posts = 1 /\ Once(CommandsTo(cs.entity))
    /\ \A entity \in Entities :
          /\ Cardinality(CommandsTo(entity)) <= 1
          /\ Cardinality(AppliedTo(entity)) <= 1
    /\ Cardinality(EventsOf("daily")) <= 1
    /\ (InputsAvailableInCycle /\ CENTRAL_HEATING_SHUTOFF_SWITCH
          /\ pc \in {"decide", "log", "central", "health", "idle"})
          => Once(EventsOf("daily"))

\* C21 witness: a cycle ended in which the room heater's command was
\* rejected, the daily prices were fetched and the relay's command was left
\* unconfirmed after ten polls, and each switch was commanded once.
C21_Witness ==
    /\ pc = "central"
    /\ SwitchReturned
    /\ cs.outcome = "Unconfirmed"
    /\ cs.polls = 10
    /\ RoomApplyFailed
    /\ Once(CommandsTo("room"))
    /\ Once(CommandsTo("central"))
    /\ Once(EventsOf("daily"))

\* C22: only a "not found" answer ends the confirmation early: after a poll
\* that failed for a transient reason (an error status other than not-found,
\* a timeout) the remaining polls of the ten are made.
C22_TransientPollFailureRetried ==
    (cs.active /\ cs.polls >= 1 /\ cs.polls < PollAttempts
        /\ cs.last.response \in {"500", "timeout"})
        => cs.at = "poll"

\* C29: a cycle reports success if and only if both the temperature and the
\* current price were obtained, whatever the applies and the daily-price
\* fetch gave, and it issues exactly one report, as its last step.
C29_HealthReport ==
    /\ EventsOf("health") # {} => pc = "idle"
    /\ CycleEnded =>
          /\ Once(EventsOf("health"))
          /\ events[Len(events)].kind = "health"
          /\ events[Len(events)].success = ~InputMissing

\* C29 witness: a cycle ended with a report of success although both applies
\* returned failure.
C29_Witness ==
    /\ CycleEnded
    /\ ~InputMissing
    /\ \A i \in EventsOf("applied") : ~events[i].ok
    /\ Cardinality(EventsOf("applied")) = 2
    /\ events[Len(events)].success

\* C29, the other cases: success with the daily series unavailable, and
\* failure with an input missing.
C29_DailyUnavailableReached ==
    /\ CycleEnded
    /\ DailyUnavailableInCycle
    /\ events[Len(events)].success

C29_FailureReached ==
    /\ CycleEnded
    /\ InputMissing
    /\ ~events[Len(events)].success

\* C30: a reading of exactly 0 is returned by retry_request on the attempt
\* that produced it, with no further call or sleep, and with a price and a
\* temperature that are both available, 0 included, the cycle computes the
\* setpoint and commands the room heater instead of aborting.
C30_ZeroIsAReading ==
    /\ [](/\ (RetryReturned /\ rr.result = Some(0)) =>
                /\ rr.calls = rr.nones + 1
                /\ Len(rr.sleeps) = rr.nones
          /\ (CycleEnded /\ ~InputMissing) =>
                /\ ~IsNone(setpoint_temp)
                /\ Once(CommandsTo("room"))
                /\ events[Len(events)].success)
    /\ [][RetryCall(Some(0)) =>
            /\ rr'.at = "returned"
            /\ rr'.result = Some(0)
            /\ rr'.nones = rr.nones
            /\ rr'.sleeps = rr.sleeps]_vars

\* C30 witness: a cycle read the price 0 and the temperature 0, each on the
\* first attempt, and switched the room heater on.
C30_Witness ==
    /\ CycleEnded
    /\ current_price = Some(0)
    /\ current_temperature = Some(0)
    /\ RoomService = {"turn_on"}
    /\ events[Len(events)].success

\* C30, the return of retry_request: a first call gave 0 and nothing followed.
C30_ZeroReturnedAtOnceReached ==
    /\ RetryReturned
    /\ rr.result = Some(0)
    /\ rr.calls = 1
    /\ rr.sleeps = <<>>

\* ------------------------------------------------------------------ claims about the thermostat sender
\* The delays of the backoff in order: 5, 10, 20, 40, 80, then 120.
BackoffDelay(i) ==
    IF i = 1 THEN 5 ELSE IF i = 2 THEN 10 ELSE IF i = 3 THEN 20
    ELSE IF i = 4 THEN 40 ELSE IF i = 5 THEN 80 ELSE 120

SenderRank ==
    3 * sender.attempt
      + (IF sender.at = "send" THEN 0 ELSE IF sender.at = "check" THEN 1
         ELSE IF sender.at = "sleep" THEN 2 ELSE 3 * 12)

\* C24: _send_with_retry terminates: every step moves it forward, it is
\* never stuck before its return and it makes at most eleven attempts; it
\* returns at the first successful send; its sleeps are 5, 10, 20, 40, 80 and
\* then 120 s, none above 120 s; it gives up exactly when the next sleep
\* would end later than 840 s after the start; no attempt begins later than
\* 840 s after the start, and the thread has returned within the cycle's
\* period of 900 s.
C24_SenderTerminates ==
    /\ [](/\ sender.attempt <= 11
          /\ sender.at # "returned" => ENABLED NextSender
          /\ sender.sent => sender.at = "returned" /\ ~sender.gave_up
          /\ Len(sender.sleeps) = sender.attempt - 1
          /\ \A i \in DOMAIN sender.sleeps :
                /\ sender.sleeps[i] = BackoffDelay(i)
                /\ sender.sleeps[i] <= 120
          /\ sender.gave_up =>
                /\ sender.at = "returned"
                /\ sender.clock + sender.delay > 840
          /\ sender.at = "sleep" => sender.clock + sender.delay <= 840
          /\ sender.began <= 840
          /\ sender.clock < CyclePeriod)
    /\ [][/\ SenderRank' > SenderRank
          /\ sender.at = "returned" => FALSE
          /\ (sender.at = "send" /\ sender'.sent) => sender'.at = "returned"
          /\ (sender.at = "check" /\ sender.clock + sender.delay > 840)
                => sender'.gave_up]_vars

\* C24 witness: the sender gave up after eleven failed attempts and ten
\* sleeps, the last five of 120 s.
C24_Witness ==
    /\ sender.at = "returned"
    /\ sender.gave_up
    /\ sender.attempt = 11
    /\ Len(sender.sleeps) = 10
    /\ sender.sleeps[6] = 120
    /\ sender.sleeps[10] = 120
    /\ sender.clock > 840 - 120

\* C24, the other return: a success at the third attempt, after two sleeps.
C24_SentOnRetryReached ==
    /\ sender.at = "returned"
    /\ sender.sent
    /\ sender.attempt = 3
    /\ sender.sleeps = <<5, 10>>

\* ------------------------------------------------------------------ claims about the decision log
LoggersIdle == \A t \in DOMAIN loggers : loggers[t].at = "idle"

InFile(entry) == \E i \in DOMAIN DECISIONS_LOG_FILE : DECISIONS_LOG_FILE[i] = entry

\* C25: when two cycles overlap, every decision that either appended to the
\* log during the current day is in the log once both have finished, as it
\* is after the two calls made one after the other.
C25_OverlapKeepsDecisions ==
    LoggersIdle =>
        \A i \in DOMAIN logged :
            logged[i].timestamp >= Midnight(now) => InFile(logged[i])

\* C25, the overlap that loses an entry: both calls made at the same tick
\* have returned and one of the two entries is not in the file.
C25_LostEntryReached ==
    /\ LoggersIdle
    /\ Len(logged) = 2
    /\ logged[1].timestamp = now
    /\ logged[2].timestamp = now
    /\ Len(DECISIONS_LOG_FILE) = 1

\* C26: after any sequence of calls over consecutive days, every entry
\* logged today or yesterday is in the file.
C26_TodayAndYesterdayKept ==
    LoggersIdle =>
        \A i \in DOMAIN logged :
            DayOf(logged[i].timestamp) >= DayOf(now) - 1 => InFile(logged[i])

\* C26, what the rotation does keep: the entries of the current day, and
\* nothing older.
C26_TodayKept ==
    LoggersIdle =>
        /\ \A i \in DOMAIN logged :
              logged[i].timestamp >= Midnight(now) => InFile(logged[i])
        /\ (Len(logged) > 0 /\ DayOf(logged[Len(logged)].timestamp) = DayOf(now))
              => \A i \in DOMAIN DECISIONS_LOG_FILE :
                    DayOf(DECISIONS_LOG_FILE[i].timestamp) = DayOf(now)

\* C26, the loss: an entry of yesterday is gone after a call made today.
C26_YesterdayRemovedReached ==
    /\ LoggersIdle
    /\ Len(logged) = 2
    /\ DayOf(logged[1].timestamp) = DayOf(now) - 1
    /\ DayOf(logged[2].timestamp) = DayOf(now)
    /\ DECISIONS_LOG_FILE = <<logged[2]>>
====
